---------------------------- MODULE Spec2Model ----------------------------
(***************************************************************************)
(* Model of the server-side rendering core of ezbot-next-app: the          *)
(* DynamicContent region renderer and the ServerSideStyles style compiler, *)
(* both pure functions of a Prediction list.                               *)
(*                                                                         *)
(* A JavaScript string is a sequence of one-character strings, so that     *)
(* split, trim, join and template concatenation are computed and not       *)
(* assumed.  An optional string that is absent is the value undefined; a   *)
(* Prediction's config is a record or null.  A Prediction's key and        *)
(* version are never read by the modelled code and are left out.           *)
(*                                                                         *)
(* Beside the render pass the module has the server side of a request:     *)
(* getServerPredictions over makeRequest with its two timers, and          *)
(* getServerContext with its header allowlist; the Node process with the   *)
(* two agents of the fetch module and their teardown hooks; and the        *)
(* ClientOnlyEzbot component in the browser.  Each specification runs one  *)
(* of these parts and holds the variables of the others at their initial   *)
(* values.                                                                 *)
(***************************************************************************)
EXTENDS Integers, Sequences, FiniteSets

VARIABLES given, predictions, style, styleSdk, region,
          referrer, pc, requestPromise, ssrTimer, reqTimer, race, result,
          unhandled,
          incoming, ctxPc, meta, fetched, context,
          calls, lastRules,
          props, effect, trace,
          agents, immediates, otherWork, delivered, exited

\* the state of one render pass
renderVars == <<given, predictions, style, styleSdk, region>>

\* the state of one call of getServerPredictions
fetchVars ==
  <<referrer, pc, requestPromise, ssrTimer, reqTimer, race, result, unhandled>>

\* the state of one call of getServerContext
contextVars == <<incoming, ctxPc, meta, fetched, context>>

\* the state of the server side of a request, before the render pass
serverVars == <<fetchVars, contextVars>>

\* the invocations of ServerSideStyles of a server process, and the array
\* the last one built
invocationVars == <<calls, lastRules>>

\* the state of a ClientOnlyEzbot in the browser: its props, its effect and
\* what it has called so far
clientVars == <<props, effect, trace>>

\* the state of the Node process that has loaded the fetch module: the two
\* agents, the queue of setImmediate callbacks, the work the event loop has
\* beside them, the signals delivered, and whether the process has exited
processVars == <<agents, immediates, otherWork, delivered, exited>>

vars == <<renderVars, serverVars, invocationVars, clientVars, processVars>>

---------------------------------------------------------------------------
(* Bounds of the model *)

\* longest prediction list of a render pass
MaxPredictions == 2
\* longest prediction value of the class-oriented specification SpecClasses
MaxValueLen == 3
\* longest className of the class-oriented specification SpecClasses
MaxClassLen == 3
\* most invocations of ServerSideStyles in one server process
MaxInvocations == 3
\* most renders of a ClientOnlyEzbot
MaxRenders == 2
\* most free sockets an agent holds
MaxSockets == 1
\* most handles and requests the event loop has beside the teardown hooks
MaxWork == 2
\* most signals delivered to the process
MaxSignals == 2
\* calls of destroy() that are told apart: none, one, two or more
MaxDestroys == 2

---------------------------------------------------------------------------
(* JavaScript values *)

\* an absent optional string (className, id, config.attribute)
undefined == <<"undefined">>

\* Prediction.config when the directive carries no config
null == [null |-> TRUE]

\* what Array.prototype.find returns when no element satisfies the predicate
undefinedPrediction == [undefined |-> TRUE]

\* a component that returns null renders nothing
ReactNull == [tag |-> "null"]

\* a component that has not been invoked yet in this render pass
NotRendered == [tag |-> "notRendered"]

\* a component that throws a TypeError instead of returning
TypeError == [tag |-> "TypeError"]

\* the kinds of value a caller can pass as the predictions prop; the elements
\* of an array are the variable predictions
Kinds == {"array", "undefined", "null", "object"}

\* !value
Falsy(kind) == kind \in {"undefined", "null"}

\* Array.isArray(value)
IsArray(kind) == kind = "array"

\* value.find and value.forEach are functions: not on undefined and null,
\* whose property reads throw, and not on a plain object
HasArrayMethods(kind) == kind = "array"

\* all strings over alphabet of length at most n
Strings(alphabet, n) == UNION {[1..k -> alphabet] : k \in 0..n}

\* JavaScript truthiness of an optional string: undefined and '' are falsy
Truthy(s) == s # undefined /\ s # <<>>

\* the characters String.prototype.trim strips
IsWhitespace(c) == c \in {" ", "\t", "\n"}

\* String.prototype.trim: drop the leading and the trailing whitespace
RECURSIVE TrimStart(_)
TrimStart(s) ==
  IF s # <<>> /\ IsWhitespace(Head(s)) THEN TrimStart(Tail(s)) ELSE s

RECURSIVE TrimEnd(_)
TrimEnd(s) ==
  IF s # <<>> /\ IsWhitespace(s[Len(s)])
  THEN TrimEnd(SubSeq(s, 1, Len(s) - 1))
  ELSE s

Trim(s) == TrimEnd(TrimStart(s))

\* String.prototype.split(' '): cut at every single space; '' gives ['']
Split(s) ==
  LET pieces[i \in 0..Len(s)] ==
        IF i = 0 THEN << <<>> >>
        ELSE IF s[i] = " "
             THEN Append(pieces[i - 1], <<>>)
             ELSE [pieces[i - 1] EXCEPT ![Len(pieces[i - 1])] = Append(@, s[i])]
  IN  pieces[Len(s)]

\* Array.prototype.join(sep): [] gives '', one element gives itself
RECURSIVE Join(_, _)
Join(parts, sep) ==
  IF parts = <<>> THEN <<>>
  ELSE IF Len(parts) = 1 THEN parts[1]
  ELSE parts[1] \o sep \o Join(Tail(parts), sep)

\* Array.prototype.includes
Includes(array, x) == \E i \in 1..Len(array) : array[i] = x

---------------------------------------------------------------------------
(* Selector Resolver *)

\* a lookup that matches a selector by prefix instead of by equality
Matches_ByPrefix(pred, selector) ==
  /\ pred.type = "visual"
  /\ pred.config # null
  /\ Len(pred.config.selector) <= Len(selector)
  /\ SubSeq(selector, 1, Len(pred.config.selector)) = pred.config.selector

\* the predicate of the lookup: a visual prediction whose config.selector
\* is strictly equal to the selector (config?.selector of null is undefined)
Matches(pred, selector) ==
  /\ pred.type = "visual"
  /\ pred.config # null
  /\ pred.config.selector = selector

\* Array.prototype.find: the first element, in index order, that matches
RECURSIVE FindFrom(_, _, _)
FindFrom(preds, selector, i) ==
  IF i > Len(preds) THEN undefinedPrediction
  ELSE IF Matches(preds[i], selector) THEN preds[i]
  ELSE FindFrom(preds, selector, i + 1)

\* a lookup in which the last match wins
getVisualForSelector_LastWins(preds, selector) ==
  LET last[i \in 0..Len(preds)] ==
        IF i = 0 THEN undefinedPrediction
        ELSE IF Matches(preds[i], selector) THEN preds[i]
        ELSE last[i - 1]
  IN  last[Len(preds)]

getVisualForSelector(preds, selector) == FindFrom(preds, selector, 1)

---------------------------------------------------------------------------
(* Content Renderer *)

\* the <div> element a DynamicContent returns, by its props
Div(className, id, children, html) ==
  [tag |-> "div", className |-> className, id |-> id,
   children |-> children, dangerouslySetInnerHTML |-> html]

\* <div className={className} id={id}>{children}</div>
DefaultElement(className, id, children) ==
  Div(className, id, children, undefined)

\* a setText that hands the value over as markup
SetTextElement_AsMarkup(className, id, value) ==
  Div(className, id, undefined, value)

\* <div className={className} id={id}>{value}</div>
SetTextElement(className, id, value) == Div(className, id, value, undefined)

\* a setInnerHTML that escapes the markup characters of the value
RECURSIVE EscapeHtml(_)
EscapeHtml(value) ==
  IF value = <<>> THEN <<>>
  ELSE (IF Head(value) = "<" THEN <<"&", "l", "t", ";">> ELSE <<Head(value)>>)
       \o EscapeHtml(Tail(value))

SetInnerHTMLElement_Escaped(className, id, value) ==
  Div(className, id, undefined, EscapeHtml(value))

\* <div className={className} id={id} dangerouslySetInnerHTML={{ __html: value }} />
SetInnerHTMLElement(className, id, value) ==
  Div(className, id, undefined, value)

\* let finalClassName = className || ''
ClassNameOrEmpty(className) == IF Truthy(className) THEN className ELSE <<>>

\* an addClasses that leaves out the tokens the class list already has
addClasses_Deduplicated(finalClassName, value) ==
  LET present == Split(finalClassName)
      fresh(cls) == ~Includes(present, cls)
  IN  Trim(finalClassName \o <<" ">>
           \o Join(SelectSeq(Split(value), fresh), <<" ">>))

\* a variant without the space between the class string and the value
addClasses_NoSeparator(finalClassName, value) == Trim(finalClassName \o value)

\* `${finalClassName} ${value}`.trim()
addClasses(finalClassName, value) == Trim(finalClassName \o <<" ">> \o value)

\* a removeClasses that removes only the first occurrence of a listed token
removeClasses_FirstOccurrence(finalClassName, value) ==
  LET classesToRemove == Split(value)
      classes == Split(finalClassName)
      kept == {i \in 1..Len(classes) :
                 \/ ~Includes(classesToRemove, classes[i])
                 \/ \E j \in 1..(i - 1) : classes[j] = classes[i]}
      nth(n) == CHOOSE i \in kept : Cardinality({j \in kept : j <= i}) = n
  IN  Join([n \in 1..Cardinality(kept) |-> classes[nth(n)]], <<" ">>)

\* finalClassName.split(' ').filter(cls => !classesToRemove.includes(cls)).join(' ')
removeClasses(finalClassName, value) ==
  LET classesToRemove == Split(value)
      kept(cls) == ~Includes(classesToRemove, cls)
  IN  Join(SelectSeq(Split(finalClassName), kept), <<" ">>)

\* the class modifications: every action but addClasses and removeClasses
\* leaves finalClassName at className || ''
ClassModification(className, action, value) ==
  IF action = "addClasses"
  THEN addClasses(ClassNameOrEmpty(className), value)
  ELSE IF action = "removeClasses"
  THEN removeClasses(ClassNameOrEmpty(className), value)
  ELSE ClassNameOrEmpty(className)

\* <div className={finalClassName} id={id}>{children}</div>
ClassElement(finalClassName, id, children) ==
  Div(finalClassName, id, children, undefined)

DynamicContent(preds, selector, children, className, id) ==
  LET relevantPrediction == getVisualForSelector(preds, selector) IN
  IF relevantPrediction = undefinedPrediction \/ relevantPrediction.config = null
  THEN DefaultElement(className, id, children)
  ELSE
    LET action == relevantPrediction.config.action
        value == relevantPrediction.value
    IN  IF action = "setText" THEN SetTextElement(className, id, value)
        ELSE IF action = "setInnerHTML"
        THEN SetInnerHTMLElement(className, id, value)
        ELSE ClassElement(ClassModification(className, action, value),
                          id, children)

\* the component on any value of the predictions prop: predictions.find is
\* called on the value as it is
DynamicContentGiven(kind, preds, selector, children, className, id) ==
  IF ~HasArrayMethods(kind)
  THEN TypeError
  ELSE DynamicContent(preds, selector, children, className, id)

---------------------------------------------------------------------------
(* Style Compiler *)

HideBody == <<" ", "{", " ", "d", "i", "s", "p", "l", "a", "y", ":", " ", "n", "o", "n", "e", " ", "!", "i", "m", "p", "o", "r", "t", "a", "n", "t", ";", " ", "}">>
ShowBody == <<" ", "{", " ", "d", "i", "s", "p", "l", "a", "y", ":", " ", "b", "l", "o", "c", "k", " ", "!", "i", "m", "p", "o", "r", "t", "a", "n", "t", ";", " ", "}">>
Open == <<" ", "{", " ">>
Colon == <<":", " ">>
Important == <<" ", "!", "i", "m", "p", "o", "r", "t", "a", "n", "t", ";", " ", "}">>
FontSize == <<"f", "o", "n", "t", "-", "s", "i", "z", "e">>
Color == <<"c", "o", "l", "o", "r">>
BackgroundColor == <<"b", "a", "c", "k", "g", "r", "o", "u", "n", "d", "-", "c", "o", "l", "o", "r">>
Visibility == <<"v", "i", "s", "i", "b", "i", "l", "i", "t", "y">>

\* a rule without the !important flag
PropertyRule_NotImportant(selector, property, value) ==
  selector \o Open \o property \o Colon \o value \o <<";", " ", "}">>

\* `${selector} { ${property}: ${value} !important; }`
PropertyRule(selector, property, value) ==
  selector \o Open \o property \o Colon \o value \o Important

\* the switch on action: the rules one record pushes onto cssRules (none or one)
SwitchAction(selector, action, attribute, value) ==
  CASE action = "hide" -> <<selector \o HideBody>>
    [] action = "show" -> <<selector \o ShowBody>>
    [] action = "setStyle" ->
         IF Truthy(attribute)
         THEN <<PropertyRule(selector, attribute, value)>>
         ELSE <<>>
    [] action = "setFontSize" -> <<PropertyRule(selector, FontSize, value)>>
    [] action = "setFontColor" -> <<PropertyRule(selector, Color, value)>>
    [] action = "setBackgroundColor" ->
         <<PropertyRule(selector, BackgroundColor, value)>>
    [] action = "setVisibility" -> <<PropertyRule(selector, Visibility, value)>>
    [] action = "addGlobalCSS" -> <<value>>
    [] OTHER -> <<>>

\* a callback that forgets the test of the type
Pushed_AnyType(prediction) ==
  IF prediction.config = null
  THEN <<>>
  ELSE SwitchAction(prediction.config.selector, prediction.config.action,
                    prediction.config.attribute, prediction.value)

\* the forEach callback: records that are not visual or have no config return early
Pushed(prediction) ==
  IF prediction.type # "visual" \/ prediction.config = null
  THEN <<>>
  ELSE SwitchAction(prediction.config.selector, prediction.config.action,
                    prediction.config.attribute, prediction.value)

\* a forEach that puts each rule in front of the earlier ones
\* a variant with one array for all invocations, at module level
NewArray_ModuleLevel == lastRules

\* const cssRules: string[] = []: every invocation starts with an array of
\* its own
NewArray == <<>>

cssRules_Unshift(preds) ==
  LET rules[i \in 0..Len(preds)] ==
        IF i = 0 THEN NewArray ELSE Pushed(preds[i]) \o rules[i - 1]
  IN  rules[Len(preds)]

\* cssRules after predictions.forEach: the pushes, in iteration order
cssRules(preds) ==
  LET rules[i \in 0..Len(preds)] ==
        IF i = 0 THEN NewArray ELSE rules[i - 1] \o Pushed(preds[i])
  IN  rules[Len(preds)]

\* the <style> element ServerSideStyles returns, by its raw markup
StyleElement(html) == [tag |-> "style", dangerouslySetInnerHTML |-> html]

\* a variant that also returns null when the joined text is empty
ServerSideStyles_NullOnEmptyText(preds) ==
  IF Join(cssRules(preds), <<"\n">>) = <<>>
  THEN ReactNull
  ELSE StyleElement(Join(cssRules(preds), <<"\n">>))

ServerSideStyles(preds) ==
  IF Len(cssRules(preds)) = 0
  THEN ReactNull
  ELSE StyleElement(Join(cssRules(preds), <<"\n">>))

\* the component on any value of the predictions prop: predictions.forEach
\* is called on the value as it is
ServerSideStylesGiven(kind, preds) ==
  IF ~HasArrayMethods(kind) THEN TypeError ELSE ServerSideStyles(preds)

\* the CSS text of the SDK helper: the rules of the style compiler, one per
\* line
predictionsToCss(preds) == Join(cssRules(preds), <<"\n">>)

\* the variant of the component that guards its input and delegates to the
\* SDK helper
ServerSideStylesSdk(kind, preds) ==
  IF Falsy(kind) \/ ~IsArray(kind)
  THEN ReactNull
  ELSE LET css == predictionsToCss(preds) IN
       IF css = <<>> THEN ReactNull ELSE StyleElement(css)

---------------------------------------------------------------------------
(* Prediction fetch: getServerPredictions over makeRequest *)

\* a promise is pending, resolved with a value or rejected with a reason
Pending == [state |-> "pending"]
Resolved(value) == [state |-> "resolved", value |-> value]
Rejected(reason) == [state |-> "rejected", reason |-> reason]

\* JavaScript values a response can carry, or the call can return
Undefined == [kind |-> "undefined"]
Null == [kind |-> "null"]
Arr(items) == [kind |-> "array", items |-> items]

\* the referrer parameter: absent (or ''), a URL, or a string that is no URL
Referrers == {"absent", "url", "notUrl"}

\* new URL(referrer) throws a TypeError
UrlThrows(ref) == ref = "notUrl"

\* res.statusCode of a response
Statuses == {200, 404, 500}

\* the prediction lists a response can carry
FetchedLists ==
  {<<>>, <<[type |-> "visual", value |-> <<"<">>, config |-> null]>>}

\* the body of a response: text that is no JSON, the JSON null, or a JSON
\* object whose predictions field is missing, null or an array
Bodies ==
  {[json |-> "invalid"], [json |-> "null"]} \cup
  [json : {"object"},
   predictions : {Undefined, Null} \cup {Arr(l) : l \in FetchedLists}]

Responses == [status : Statuses, body : Bodies]

\* a variant whose catch block throws the error again
AfterRace_Rethrow(outcome) ==
  IF outcome.state = "rejected" THEN Rejected(outcome.reason)
  ELSE IF outcome.value.status # 200 THEN Rejected("status")
  ELSE IF outcome.value.body.json = "invalid" THEN Rejected("SyntaxError")
  ELSE IF outcome.value.body.json = "null" THEN Rejected("TypeError")
  ELSE Resolved(outcome.value.body.predictions)

\* the rest of the try block once the race has settled: the status test,
\* response.json() and the read of the predictions field of the parsed body
\* (a TypeError when the body is the JSON null); whatever is thrown is caught
\* and the call returns []
AfterRace(outcome) ==
  IF outcome.state = "rejected" THEN Resolved(Arr(<<>>))
  ELSE IF outcome.value.status # 200 THEN Resolved(Arr(<<>>))
  ELSE IF outcome.value.body.json = "invalid" THEN Resolved(Arr(<<>>))
  ELSE IF outcome.value.body.json = "null" THEN Resolved(Arr(<<>>))
  ELSE Resolved(outcome.value.body.predictions)

\* a ClientOnlyEzbot that is not mounted
NotMounted == [mounted |-> FALSE]

\* no ClientOnlyEzbot in the browser
NoClient ==
  /\ props = NotMounted
  /\ effect = [deps |-> <<>>, renders |-> 0, crashed |-> FALSE]
  /\ trace = <<>>

\* new HttpAgent({keepAlive: true, ...}): no socket yet, destroy() not called
NewAgent == [sockets |-> 0, destroys |-> 0]

\* the process has loaded the module and nothing else has happened
NoProcess ==
  /\ agents = [http |-> NewAgent, https |-> NewAgent]
  /\ immediates = <<>>
  /\ otherWork = 0
  /\ delivered = 0
  /\ exited = FALSE

\* no call of getServerPredictions
NoFetch ==
  /\ referrer = "absent"
  /\ pc = "idle"
  /\ requestPromise = Pending
  /\ ssrTimer = "unset"
  /\ reqTimer = "unset"
  /\ race = Pending
  /\ result = Pending
  /\ unhandled = {}

\* getServerPredictions(params) is called
FetchCalled ==
  /\ referrer \in Referrers
  /\ pc = "called"
  /\ requestPromise = Pending
  /\ ssrTimer = "unset"
  /\ reqTimer = "unset"
  /\ race = Pending
  /\ result = Pending
  /\ unhandled = {}

\* the synchronous part of the call: a referrer that is no URL throws inside
\* the try block; otherwise the SSR timer is set, the request is sent with its
\* own timeout, and the call waits for the race
Start ==
  /\ pc = "called"
  /\ IF UrlThrows(referrer)
     THEN /\ pc' = "returned"
          /\ result' = Resolved(Arr(<<>>))
          /\ UNCHANGED <<ssrTimer, reqTimer>>
     ELSE /\ pc' = "racing"
          /\ ssrTimer' = "set"
          /\ reqTimer' = "set"
          /\ UNCHANGED result
  /\ UNCHANGED <<referrer, requestPromise, race, unhandled>>
  /\ UNCHANGED <<renderVars, contextVars, invocationVars, clientVars, processVars>>

\* the promises Promise.race is given: it attaches its reactions to each, so
\* a rejection of either is handled, before and after the race has settled
RaceInputs == {"makeRequest", "timeoutPromise"}

\* reject(reason) on a promise: an unhandled rejection when nothing has
\* attached a reaction to the promise
Reject(promise, reason) ==
  unhandled' = IF promise \in RaceInputs THEN unhandled
               ELSE unhandled \cup {reason}

\* a variant of the race that takes every outcome, so that the last one is
\* the one the call returns
Settle_LastWins(outcome) ==
  /\ race' = outcome
  /\ result' = AfterRace(outcome)
  /\ pc' = "returned"

\* Promise.race settles with the first outcome only; the call then runs to
\* its return before any other event is handled
Settle(outcome) ==
  IF race = Pending
  THEN /\ race' = outcome
       /\ result' = AfterRace(outcome)
       /\ pc' = "returned"
  ELSE UNCHANGED <<race, result, pc>>

\* res.on('end'): the response is complete
ResponseEnd(response) ==
  /\ reqTimer # "unset"
  /\ requestPromise = Pending
  /\ requestPromise' = Resolved(response)
  /\ Settle(Resolved(response))
  /\ UNCHANGED <<referrer, ssrTimer, reqTimer, unhandled>>
  /\ UNCHANGED <<renderVars, contextVars, invocationVars, clientVars, processVars>>

\* req.on('error')
RequestError ==
  /\ reqTimer # "unset"
  /\ requestPromise = Pending
  /\ requestPromise' = Rejected("error")
  /\ Reject("makeRequest", "error")
  /\ Settle(Rejected("error"))
  /\ UNCHANGED <<referrer, ssrTimer, reqTimer>>
  /\ UNCHANGED <<renderVars, contextVars, invocationVars, clientVars, processVars>>

\* the request's own timeout: the request is destroyed and rejected
RequestTimeout ==
  /\ reqTimer = "set"
  /\ requestPromise = Pending
  /\ reqTimer' = "fired"
  /\ requestPromise' = Rejected("Request timeout")
  /\ Reject("makeRequest", "Request timeout")
  /\ Settle(Rejected("Request timeout"))
  /\ UNCHANGED <<referrer, ssrTimer>>
  /\ UNCHANGED <<renderVars, contextVars, invocationVars, clientVars, processVars>>

\* a variant whose timer fires without rejecting timeoutPromise
SsrTimeout_NoReject ==
  /\ ssrTimer = "set"
  /\ ssrTimer' = "fired"
  /\ UNCHANGED <<referrer, pc, requestPromise, reqTimer, race, result,
                 unhandled>>
  /\ UNCHANGED <<renderVars, contextVars, invocationVars, clientVars, processVars>>

\* the SSR timer, which is never cleared: timeoutPromise is rejected
SsrTimeout ==
  /\ ssrTimer = "set"
  /\ ssrTimer' = "fired"
  /\ Reject("timeoutPromise", "SSR timeout")
  /\ Settle(Rejected("SSR timeout"))
  /\ UNCHANGED <<referrer, requestPromise, reqTimer>>
  /\ UNCHANGED <<renderVars, contextVars, invocationVars, clientVars, processVars>>

\* ServerSideStyles has not been invoked in the process
NoInvocations ==
  /\ calls = <<>>
  /\ lastRules = <<>>

NoRender ==
  /\ given = "array"
  /\ predictions = <<>>
  /\ style = NotRendered
  /\ styleSdk = NotRendered
  /\ region = NotRendered

NextFetch ==
  \/ Start
  \/ \E response \in Responses : ResponseEnd(response)
  \/ RequestError
  \/ RequestTimeout
  \/ SsrTimeout

\* the synchronous part of a call runs, and a timer that is set fires; the
\* server owes no answer
FairFetch == WF_vars(Start) /\ WF_vars(SsrTimeout)

---------------------------------------------------------------------------
(* Server context: getServerContext *)

\* the header names of a request as sent, in any letter case
WireNames ==
  {"Accept", "accept-language", "x-forwarded-for", "X-Forwarded-Host",
   "x-forwarded-proto", "Cookie", "authorization", "User-Agent", "Referer"}

\* a Headers object holds its names in lower case
ToLowerCase(name) ==
  CASE name = "Accept" -> "accept"
    [] name = "X-Forwarded-Host" -> "x-forwarded-host"
    [] name = "Cookie" -> "cookie"
    [] name = "User-Agent" -> "user-agent"
    [] name = "Referer" -> "referer"
    [] OTHER -> name

\* the header is not in the request
Absent == "(absent)"

\* the values of the Referer header: empty, a URL, a string that is no URL
RefererValues == {"", "https://a.example/p", "not a url"}

\* new URL(s) succeeds
IsUrl(s) == s = "https://a.example/p"

\* new URL(s).origin
Origin(s) == "https://a.example"

\* a string value
Str(s) == [kind |-> "string", value |-> s]

\* the headers with two possible values
TwoValued == {"Accept", "accept-language", "x-forwarded-for"}

\* the headers of a request: any subset of the names, each with a value
IncomingHeaders ==
  {[n \in {k \in WireNames : t[k] # Absent} |-> t[n]] :
     t \in {[n \in WireNames |-> IF n = "Referer" THEN r ELSE h[n]] :
              h \in {g \in [WireNames \ {"Referer"} -> {Absent, "v", "w"}] :
                       \A n \in WireNames \ ({"Referer"} \cup TwoValued) :
                         g[n] # "w"},
              r \in {Absent} \cup RefererValues}}

\* await headers(): the request's headers under lower-case names
headers(wire) ==
  [k \in {ToLowerCase(n) : n \in DOMAIN wire} |->
     wire[CHOOSE n \in DOMAIN wire : ToLowerCase(n) = k]]

\* headersList.get(name) || ""
GetOrEmpty(headersList, name) ==
  IF name \in DOMAIN headersList THEN headersList[name] ELSE ""

allowedHeaderNames ==
  {"accept", "accept-language", "x-forwarded-for", "x-forwarded-host",
   "x-forwarded-proto"}

\* a variant that forwards every header
forwardedHeaders_All(headersList) == headersList

\* the loop over headersList.entries()
forwardedHeaders(headersList) ==
  [key \in {k \in DOMAIN headersList : k \in allowedHeaderNames} |->
     headersList[key]]

\* what the prediction fetch of the SDK client can do with a call: resolve
\* to a prediction list, or reject
FetchOutcomes ==
  {Resolved(Arr(l)) : l \in FetchedLists} \cup
  {Rejected("error"), Rejected("timeout")}

NotCalled == [called |-> FALSE]

\* no call of getServerContext
NoContext ==
  /\ incoming = <<>>
  /\ ctxPc = "idle"
  /\ meta = NotCalled
  /\ fetched = Pending
  /\ context = Pending

\* getServerContext is called in a request
ContextCalled ==
  /\ incoming \in IncomingHeaders
  /\ ctxPc = "called"
  /\ meta = NotCalled
  /\ fetched = Pending
  /\ context = Pending

\* the call up to its await of the fetch: the headers are read, the origin is
\* taken from the referer (outside any try block), the allowlisted headers are
\* copied, and the fetch is called with the request meta
CallFetch ==
  /\ ctxPc = "called"
  /\ LET headersList == headers(incoming)
         userAgent == GetOrEmpty(headersList, "user-agent")
         referer == GetOrEmpty(headersList, "referer")
     IN  IF referer # "" /\ ~IsUrl(referer)
         THEN /\ context' = Rejected("TypeError")
              /\ ctxPc' = "returned"
              /\ UNCHANGED meta
         ELSE /\ meta' = [called |-> TRUE,
                          userAgent |-> userAgent,
                          referrer |-> referer,
                          origin |-> IF referer # "" THEN Str(Origin(referer))
                                     ELSE Undefined,
                          headers |-> forwardedHeaders(headersList)]
              /\ ctxPc' = "awaiting"
              /\ UNCHANGED context
  /\ UNCHANGED <<incoming, fetched>>
  /\ UNCHANGED <<renderVars, fetchVars, invocationVars, clientVars, processVars>>

\* the fetch settles: its value, or [] from the catch handler, becomes the
\* predictions of the context
FetchSettles(outcome) ==
  /\ ctxPc = "awaiting"
  /\ fetched' = outcome
  /\ context' = Resolved([predictions |->
                            IF outcome.state = "rejected" THEN Arr(<<>>)
                            ELSE outcome.value])
  /\ ctxPc' = "returned"
  /\ UNCHANGED <<incoming, meta>>
  /\ UNCHANGED <<renderVars, fetchVars, invocationVars, clientVars, processVars>>

NextContext ==
  \/ CallFetch
  \/ \E outcome \in FetchOutcomes : FetchSettles(outcome)

\* a render pass alone: nothing is called on the server side
NoServer == NoFetch /\ NoContext

\* a call of getServerPredictions alone
InitFetch ==
  /\ FetchCalled
  /\ NoContext
  /\ NoRender
  /\ NoInvocations
  /\ NoClient
  /\ NoProcess

\* a call of getServerContext alone
InitContext ==
  /\ ContextCalled
  /\ NoFetch
  /\ NoRender
  /\ NoInvocations
  /\ NoClient
  /\ NoProcess

SpecFetch == InitFetch /\ [][NextFetch]_vars /\ FairFetch

SpecContext == InitContext /\ [][NextContext]_vars

---------------------------------------------------------------------------
(* The agents of the fetch module and their teardown hooks in a Node process *)

Protocols == {"http", "https"}

Signals == {"SIGTERM", "SIGINT"}

\* agent.destroy(): closes the sockets of the agent; it can be called again
Destroy(agent) ==
  [sockets |-> 0,
   destroys |-> IF agent.destroys < MaxDestroys THEN agent.destroys + 1
                ELSE MaxDestroys]

\* the listener of 'SIGTERM', 'SIGINT' and 'beforeExit': the same body three
\* times, it only schedules the teardown with setImmediate
OnEvent(event, queue) == Append(queue, event)

\* a request over the agent of its protocol ends and its socket is kept
\* alive in the agent; a free socket is unreferenced and does not keep the
\* event loop alive
Request(protocol) ==
  /\ ~exited
  /\ otherWork > 0
  /\ agents[protocol].sockets < MaxSockets
  /\ agents' = [agents EXCEPT ![protocol].sockets = @ + 1]
  /\ UNCHANGED <<immediates, otherWork, delivered, exited>>
  /\ UNCHANGED <<renderVars, serverVars, invocationVars, clientVars>>

\* a handle or a request that kept the event loop alive is closed
WorkDone ==
  /\ ~exited
  /\ otherWork > 0
  /\ otherWork' = otherWork - 1
  /\ UNCHANGED <<agents, immediates, delivered, exited>>
  /\ UNCHANGED <<renderVars, serverVars, invocationVars, clientVars>>

\* a signal is delivered: with a listener installed Node does not end the
\* process, it runs the listener
Signal(sig) ==
  /\ ~exited
  /\ delivered < MaxSignals
  /\ delivered' = delivered + 1
  /\ immediates' = OnEvent(sig, immediates)
  /\ UNCHANGED <<agents, otherWork, exited>>
  /\ UNCHANGED <<renderVars, serverVars, invocationVars, clientVars>>

\* the event loop runs the first setImmediate callback: both agents are
\* destroyed
RunImmediate ==
  /\ ~exited
  /\ immediates # <<>>
  /\ immediates' = Tail(immediates)
  /\ agents' = [p \in Protocols |-> Destroy(agents[p])]
  /\ UNCHANGED <<otherWork, delivered, exited>>
  /\ UNCHANGED <<renderVars, serverVars, invocationVars, clientVars>>

\* the event loop has nothing left: Node emits 'beforeExit', runs the
\* listener, and exits unless the loop is alive again
BeforeExit ==
  /\ ~exited
  /\ otherWork = 0
  /\ immediates = <<>>
  /\ immediates' = OnEvent("beforeExit", immediates)
  /\ exited' = (immediates' = <<>>)
  /\ UNCHANGED <<agents, otherWork, delivered>>
  /\ UNCHANGED <<renderVars, serverVars, invocationVars, clientVars>>

InitProcess ==
  /\ agents = [http |-> NewAgent, https |-> NewAgent]
  /\ immediates = <<>>
  /\ otherWork \in 0..MaxWork
  /\ delivered = 0
  /\ exited = FALSE
  /\ NoRender
  /\ NoServer
  /\ NoInvocations
  /\ NoClient

NextProcess ==
  \/ \E protocol \in Protocols : Request(protocol)
  \/ WorkDone
  \/ \E sig \in Signals : Signal(sig)
  \/ RunImmediate
  \/ BeforeExit

\* the event loop runs what is queued, and Node emits 'beforeExit' when the
\* loop is empty
FairProcess == WF_vars(RunImmediate) /\ WF_vars(BeforeExit)

SpecProcess == InitProcess /\ [][NextProcess]_vars /\ FairProcess

---------------------------------------------------------------------------
(* ClientOnlyEzbot in the browser *)

ProjectIds == {4, 5}

UserIds == {undefined, <<"u">>}

\* the arrays a page can pass as predictions, by reference: two of them have
\* the same elements
ArrayRefs == {1, 2, 3}

\* the elements of an array
Items(ref) ==
  IF ref = 1 THEN <<>>
  ELSE <<[type |-> "visual", value |-> <<"<">>, config |-> null]>>

\* the values of the predictions prop: an array, or undefined
PredictionsProps ==
  [kind : {"array"}, ref : ArrayRefs] \cup {[kind |-> "undefined", ref |-> 0]}

Props ==
  [mounted : {TRUE}, projectId : ProjectIds, predictions : PredictionsProps,
   userId : UserIds]

\* a variant whose dependency array leaves out predictions
Deps_WithoutPredictions(p) == <<p.projectId, p.userId>>

\* the dependency array of the effect; React compares each element with
\* Object.is, an array by reference
Deps(p) == <<p.projectId, p.predictions, p.userId>>

\* predictions && predictions.length >= 0
Guard(preds) == ~Falsy(preds.kind) /\ Len(Items(preds.ref)) >= 0

\* a call, and whether it threw
Call(name, args, threw) == [call |-> name, args |-> args, threw |-> threw]

\* the calls of the effect's try block, in the order of the source
TryBlock(p) ==
  <<[call |-> "initEzbotWithServerSidePredictions",
     args |-> <<p.projectId, p.predictions, p.userId>>],
    [call |-> "startActivityTracking",
     args |-> <<[minimumVisitLength |-> 5, heartbeatDelay |-> 10]>>],
    [call |-> "trackPageView", args |-> <<>>]>>

\* what SDK call of a run of the effect throws, if any
Throwers == {0, 1, 2, 3}

\* one run of the effect: the calls up to the one that throws, and then the
\* catch block
Effect(p, thrower) ==
  IF ~Guard(p.predictions) THEN <<>>
  ELSE LET last == IF thrower = 0 THEN Len(TryBlock(p)) ELSE thrower IN
       [i \in 1..last |->
          Call(TryBlock(p)[i].call, TryBlock(p)[i].args, i = thrower)]
       \o (IF thrower = 0 THEN <<>>
           ELSE <<Call("console.error", <<>>, FALSE)>>)

\* the component is rendered with props p: it renders ServerSideStyles with
\* the predictions, and after the commit React runs the effect on mount and
\* when an element of the dependency array has changed
Render(p, thrower) ==
  /\ effect.renders < MaxRenders
  /\ LET runs == props = NotMounted \/ effect.deps # Deps(p) IN
     /\ trace' = trace \o <<Call("ServerSideStyles", <<p.predictions>>, FALSE)>>
                       \o (IF runs THEN Effect(p, thrower) ELSE <<>>)
     /\ effect' = [deps |-> IF runs THEN Deps(p) ELSE effect.deps,
                   renders |-> effect.renders + 1,
                   crashed |-> FALSE]
  /\ props' = p
  /\ UNCHANGED <<renderVars, serverVars, invocationVars, processVars>>

InitClient ==
  /\ NoClient
  /\ NoProcess
  /\ NoRender
  /\ NoServer
  /\ NoInvocations

NextClient == \E p \in Props, thrower \in Throwers : Render(p, thrower)

SpecClient == InitClient /\ [][NextClient]_vars

---------------------------------------------------------------------------
(* Inputs of a render pass *)

Types == {"visual", "text"}

Selectors == {<<".", "t">>, <<".", "t", "x">>}

Actions ==
  {"setText", "setInnerHTML", "hide", "show", "setStyle", "setFontSize",
   "setFontColor", "setBackgroundColor", "setVisibility", "addClasses",
   "removeClasses", "setAttribute", "addGlobalCSS", "unknown"}

\* the attribute is optional; the one action that reads it is varied over it
Attributes(action) ==
  IF action = "setStyle" THEN {undefined, <<>>, <<"c">>} ELSE {undefined}

Configs(actions) ==
  {null} \cup
  UNION {[selector : Selectors, action : {a}, attribute : Attributes(a)] :
           a \in actions}

Ids == {undefined, <<"h">>}

\* the default content of a region
Children == <<"D">>

\* Spec: every kind of visual directive, with an empty and a non-empty value;
\* the predictions of another type carry no config, or one that would act on
\* a region (setText) or emit a rule (hide) if the type were not tested
Texts == {<<>>, <<"<">>}
Predictions ==
  [type : {"visual"}, value : Texts, config : Configs(Actions)] \cup
  [type : Types \ {"visual"}, value : {<<"<">>},
   config : Configs({"hide", "setText"})]
PredictionLists == UNION {[1..n -> Predictions] : n \in 0..MaxPredictions}
ClassNames == {undefined, <<"a">>}

\* SpecClasses: one class directive, class strings with several tokens,
\* repeated tokens and repeated spaces
ClassAlphabet == {"a", "b", " "}
ClassValues == Strings(ClassAlphabet, MaxValueLen)
ClassPredictions ==
  [type : {"visual"}, value : ClassValues,
   config : Configs({"addClasses", "removeClasses"}) \ {null}]
ClassPredictionLists == {<<>>} \cup {<<p>> : p \in ClassPredictions}
LongClassNames == {undefined} \cup Strings(ClassAlphabet, MaxClassLen)

---------------------------------------------------------------------------
(* One render pass: the page renders ServerSideStyles, then a region *)

\* the actions the README lists as supported
ReadmeActions ==
  {"setText", "setInnerHTML", "hide", "show", "setStyle", "setFontSize",
   "setFontColor", "setBackgroundColor", "addClasses", "removeClasses",
   "setAttribute", "addGlobalCSS"}

\* the attribute of a well-formed directive: a property name for setStyle, an
\* attribute name for setAttribute
WellFormedAttributes(action) ==
  CASE action = "setStyle" -> {<<"c">>}
    [] action = "setAttribute" -> {<<"i", "d">>, <<"t">>}
    [] OTHER -> {undefined}

\* visual directives with a selector, a supported action, the attribute the
\* action needs and a value
WellFormedDirectives ==
  [type : {"visual"},
   value : {<<"<">>, <<"a">>},
   config : UNION {[selector : Selectors, action : {a},
                    attribute : WellFormedAttributes(a)] : a \in ReadmeActions}]

Init ==
  /\ given = "array"
  /\ predictions \in PredictionLists
  /\ style = NotRendered
  /\ styleSdk = NotRendered
  /\ region = NotRendered
  /\ NoServer
  /\ NoInvocations
  /\ NoClient
  /\ NoProcess

InitClasses ==
  /\ given = "array"
  /\ predictions \in ClassPredictionLists
  /\ style = NotRendered
  /\ styleSdk = NotRendered
  /\ region = NotRendered
  /\ NoServer
  /\ NoInvocations
  /\ NoClient
  /\ NoProcess

\* a caller that passes any kind of value as the predictions prop; an array
\* is the empty list
InitMalformed ==
  /\ given \in Kinds
  /\ predictions = <<>>
  /\ style = NotRendered
  /\ styleSdk = NotRendered
  /\ region = NotRendered
  /\ NoServer
  /\ NoInvocations
  /\ NoClient
  /\ NoProcess

\* a pass over no directive or one well-formed directive
InitActions ==
  /\ given = "array"
  /\ predictions \in {<<>>} \cup {<<p>> : p \in WellFormedDirectives}
  /\ style = NotRendered
  /\ styleSdk = NotRendered
  /\ region = NotRendered
  /\ NoServer
  /\ NoInvocations
  /\ NoClient
  /\ NoProcess

RenderServerSideStyles ==
  /\ style = NotRendered
  /\ style' = ServerSideStylesGiven(given, predictions)
  /\ UNCHANGED <<given, predictions, styleSdk, region>>
  /\ UNCHANGED <<serverVars, invocationVars, clientVars, processVars>>

RenderServerSideStylesSdk ==
  /\ styleSdk = NotRendered
  /\ styleSdk' = ServerSideStylesSdk(given, predictions)
  /\ UNCHANGED <<given, predictions, style, region>>
  /\ UNCHANGED <<serverVars, invocationVars, clientVars, processVars>>

\* one <DynamicContent selector className id>children</DynamicContent>
RenderDynamicContent(selector, className, id) ==
  /\ style # NotRendered
  /\ region = NotRendered
  /\ region' = [selector |-> selector, className |-> className, id |-> id,
                element |-> DynamicContentGiven(given, predictions, selector,
                                                Children, className, id)]
  /\ UNCHANGED <<given, predictions, style, styleSdk>>
  /\ UNCHANGED <<serverVars, invocationVars, clientVars, processVars>>

Next ==
  \/ RenderServerSideStyles
  \/ \E selector \in Selectors, className \in ClassNames, id \in Ids :
       RenderDynamicContent(selector, className, id)

NextClasses ==
  \/ RenderServerSideStyles
  \/ \E selector \in Selectors, className \in LongClassNames, id \in Ids :
       RenderDynamicContent(selector, className, id)

NextMalformed ==
  \/ RenderServerSideStyles
  \/ RenderServerSideStylesSdk
  \/ \E selector \in Selectors, className \in LongClassNames, id \in Ids :
       RenderDynamicContent(selector, className, id)

Spec == Init /\ [][Next]_vars

SpecMalformed == InitMalformed /\ [][NextMalformed]_vars

SpecClasses == InitClasses /\ [][NextClasses]_vars

SpecActions == InitActions /\ [][Next]_vars

---------------------------------------------------------------------------
(* A server process that invokes ServerSideStyles for one request after
   another *)

\* the directives of the invoked lists
InvokedDirectives ==
  {[type |-> "visual", value |-> <<"<">>,
    config |-> [selector |-> <<".", "t">>, action |-> "hide",
                attribute |-> undefined]],
   [type |-> "visual", value |-> <<"<">>,
    config |-> [selector |-> <<".", "t">>, action |-> "addGlobalCSS",
                attribute |-> undefined]]}

InvokedLists ==
  UNION {[1..n -> InvokedDirectives] : n \in 0..MaxPredictions}

\* ServerSideStyles is invoked on a list; a render is synchronous, so an
\* invocation runs to its return before the next one starts
InvokeServerSideStyles(list) ==
  /\ Len(calls) < MaxInvocations
  /\ calls' = Append(calls, [list |-> list, output |-> ServerSideStyles(list)])
  /\ lastRules' = cssRules(list)
  /\ UNCHANGED <<renderVars, serverVars, clientVars, processVars>>

NextInvocations == \E list \in InvokedLists : InvokeServerSideStyles(list)

\* a server process before its first request
InitInvocations ==
  /\ NoInvocations
  /\ NoClient
  /\ NoProcess
  /\ NoRender
  /\ NoServer

SpecInvocations == InitInvocations /\ [][NextInvocations]_vars

---------------------------------------------------------------------------
(* Properties *)

\* the indices of the directives for a selector: visual, with a config whose
\* selector is the same string
Directives(preds, selector) ==
  {i \in 1..Len(preds) :
     /\ preds[i].type = "visual"
     /\ preds[i].config # null
     /\ preds[i].config.selector = selector}

Lowest(S) == CHOOSE i \in S : \A j \in S : i <= j

\* the region's directives in the list of the pass
RegionDirectives == Directives(predictions, region.selector)

\* the default rendering of the region: the default children, and the
\* className and id as the caller supplied them
DefaultRendering ==
  [tag |-> "div", className |-> region.className, id |-> region.id,
   children |-> Children, dangerouslySetInnerHTML |-> undefined]

\* C1: the directive that governs a region is the lowest-index visual
\* prediction whose config.selector equals the selector; the region is rendered
\* as if that prediction were the only one, and the predictions after it have
\* no effect on the output.
C1_FirstMatchGoverns ==
  (region # NotRendered /\ RegionDirectives # {}) =>
    LET first == Lowest(RegionDirectives) IN
    /\ getVisualForSelector(predictions, region.selector) = predictions[first]
    /\ region.element =
         DynamicContent(<<predictions[first]>>, region.selector, Children,
                        region.className, region.id)
    /\ region.element =
         DynamicContent(SubSeq(predictions, 1, first), region.selector,
                        Children, region.className, region.id)

\* C1 witness: the first directive of the region is a hide, which the renderer
\* ignores, a later one is a setText with a text, and the region shows the
\* default children.
C1_Witness ==
  /\ region # NotRendered
  /\ Len(predictions) = 2
  /\ RegionDirectives = {1, 2}
  /\ predictions[1].config.action = "hide"
  /\ predictions[2].config.action = "setText"
  /\ predictions[2].value = <<"<">>
  /\ region.element.children = Children

\* the predictions the core processes: visual, with a config
Processed(preds) ==
  SelectSeq(preds, LAMBDA p : p.type = "visual" /\ p.config # null)

\* C2: a prediction that is not visual, or has no config, is never the
\* directive resolved for a region and never contributes a CSS rule: the
\* region and the style are those of the list without these predictions.
C2_OnlyVisualWithConfig ==
  /\ style # NotRendered => style = ServerSideStyles(Processed(predictions))
  /\ region # NotRendered =>
       /\ region.element =
            DynamicContent(Processed(predictions), region.selector, Children,
                           region.className, region.id)
       /\ LET resolved == getVisualForSelector(predictions, region.selector) IN
          resolved # undefinedPrediction =>
            (resolved.type = "visual" /\ resolved.config # null)

\* C2 witness: a non-visual prediction with a hide config for the region's
\* selector and a visual prediction without config; no style is emitted and
\* the region has its default rendering.
C2_Witness ==
  /\ region # NotRendered
  /\ Len(predictions) = 2
  /\ predictions[1].type = "text"
  /\ predictions[1].config # null
  /\ predictions[1].config.selector = region.selector
  /\ predictions[1].config.action = "hide"
  /\ predictions[2].type = "visual"
  /\ predictions[2].config = null
  /\ style = ReactNull
  /\ region.element = DefaultRendering

\* C3: when no visual prediction has the region's selector, the region has
\* exactly the default rendering.
C3_NoMatchIsDefault ==
  (region # NotRendered /\ RegionDirectives = {}) =>
    region.element = DefaultRendering

\* C3 witness: the only visual directive is a setText for another selector,
\* of which the region's selector is an extension.
C3_Witness ==
  /\ region # NotRendered
  /\ region.selector = <<".", "t", "x">>
  /\ region.className = <<"a">>
  /\ region.id = <<"h">>
  /\ Len(predictions) = 1
  /\ predictions[1].type = "visual"
  /\ predictions[1].config # null
  /\ predictions[1].config.selector = <<".", "t">>
  /\ predictions[1].config.action = "setText"
  /\ region.element.children = Children

\* the directive that governs the region: its lowest-index directive
Governing == predictions[Lowest(RegionDirectives)]

\* the region is rendered and a directive with this action governs it
GovernedBy(action) ==
  /\ region # NotRendered
  /\ RegionDirectives # {}
  /\ Governing.config.action = action

\* C4: under a setText directive the region's content is the directive's
\* value as literal text (a text child, no markup), the default children are
\* not emitted, and the className and id are as supplied.
C4_SetTextIsLiteralText ==
  GovernedBy("setText") =>
    region.element =
      [tag |-> "div", className |-> region.className, id |-> region.id,
       children |-> Governing.value, dangerouslySetInnerHTML |-> undefined]

\* C4 witness: a setText whose value is a markup character, in a region with
\* a className and an id.
C4_Witness ==
  /\ GovernedBy("setText")
  /\ Governing.value = <<"<">>
  /\ region.className = <<"a">>
  /\ region.id = <<"h">>
  /\ region.element.children = <<"<">>
  /\ region.element.dangerouslySetInnerHTML = undefined

\* C5: under a setInnerHTML directive the region's content is the directive's
\* value, unchanged, as raw markup; there are no children, and the className
\* and id are as supplied.
C5_SetInnerHTMLIsRawMarkup ==
  GovernedBy("setInnerHTML") =>
    region.element =
      [tag |-> "div", className |-> region.className, id |-> region.id,
       children |-> undefined, dangerouslySetInnerHTML |-> Governing.value]

\* C5 witness: a setInnerHTML whose value is a markup character, in a region
\* without className.
C5_Witness ==
  /\ GovernedBy("setInnerHTML")
  /\ Governing.value = <<"<">>
  /\ region.className = undefined
  /\ region.element.dangerouslySetInnerHTML = <<"<">>
  /\ region.element.children = undefined

\* the actions the Content Renderer acts on
ContentActions == {"setText", "setInnerHTML", "addClasses", "removeClasses"}

\* C8: under a directive with any other action the region has exactly the
\* default rendering, className and id as supplied, also when no className
\* was supplied.
C8_OtherActionIsDefault ==
  (/\ region # NotRendered
   /\ RegionDirectives # {}
   /\ Governing.config.action \notin ContentActions) =>
    region.element = DefaultRendering

\* the rule of the action-to-rule table for a visual prediction with a config,
\* as a list of no or one rule; an attribute is a non-empty property name
Block(selector, declaration) ==
  selector \o <<" ", "{", " ">> \o declaration \o <<" ", "!", "i", "m", "p", "o", "r", "t", "a", "n", "t", ";", " ", "}">>

TableRule(p) ==
  LET selector == p.config.selector
      action == p.config.action
      attribute == p.config.attribute
      value == p.value
  IN  CASE action = "hide" -> <<Block(selector, <<"d", "i", "s", "p", "l", "a", "y", ":", " ", "n", "o", "n", "e">>)>>
        [] action = "show" -> <<Block(selector, <<"d", "i", "s", "p", "l", "a", "y", ":", " ", "b", "l", "o", "c", "k">>)>>
        [] action = "setStyle" /\ attribute \notin {undefined, <<>>} ->
             <<Block(selector, attribute \o <<":", " ">> \o value)>>
        [] action = "setFontSize" -> <<Block(selector, <<"f", "o", "n", "t", "-", "s", "i", "z", "e", ":", " ">> \o value)>>
        [] action = "setFontColor" -> <<Block(selector, <<"c", "o", "l", "o", "r", ":", " ">> \o value)>>
        [] action = "setBackgroundColor" ->
             <<Block(selector, <<"b", "a", "c", "k", "g", "r", "o", "u", "n", "d", "-", "c", "o", "l", "o", "r", ":", " ">> \o value)>>
        [] action = "setVisibility" -> <<Block(selector, <<"v", "i", "s", "i", "b", "i", "l", "i", "t", "y", ":", " ">> \o value)>>
        [] action = "addGlobalCSS" -> <<value>>
        [] OTHER -> <<>>

\* the rules of the table for a list, in list order
TableRules(preds) ==
  LET rules[i \in 0..Len(preds)] ==
        IF i = 0 THEN <<>>
        ELSE IF preds[i].type = "visual" /\ preds[i].config # null
             THEN rules[i - 1] \o TableRule(preds[i])
             ELSE rules[i - 1]
  IN  rules[Len(preds)]

\* rules, one per line
Lines(rules) ==
  LET text[i \in 1..Len(rules)] ==
        IF i = 1 THEN rules[1] ELSE text[i - 1] \o <<"\n">> \o rules[i]
  IN  text[Len(rules)]

\* what the style compiler returns for a list of rules
Compiled(rules) ==
  IF rules = <<>>
  THEN [tag |-> "null"]
  ELSE [tag |-> "style", dangerouslySetInnerHTML |-> Lines(rules)]

\* C9: every visual prediction with a config emits exactly the rule of the
\* action-to-rule table (setStyle only with a property name as attribute; no
\* rule for any action outside the table), whatever the other records of the
\* list are.
C9_ActionToRuleTable ==
  style # NotRendered => style = Compiled(TableRules(predictions))

\* C9 witness: a setStyle without attribute, which emits nothing, before a
\* setFontColor, whose rule is the whole CSS text.
C9_Witness ==
  /\ style # NotRendered
  /\ Len(predictions) = 2
  /\ predictions[1].type = "visual"
  /\ predictions[1].config # null
  /\ predictions[1].config.action = "setStyle"
  /\ predictions[1].config.attribute = undefined
  /\ predictions[2].type = "visual"
  /\ predictions[2].config # null
  /\ predictions[2].config.action = "setFontColor"
  /\ predictions[2].config.selector = <<".", "t">>
  /\ predictions[2].value = <<"<">>
  /\ style.tag = "style"
  /\ style.dangerouslySetInnerHTML = 
       <<".", "t", " ", "{", " ", "c", "o", "l", "o", "r", ":", " ", "<", " ", "!", "i", "m", "p", "o", "r", "t", "a", "n", "t", ";", " ", "}">>

\* the rule a record emits when it is compiled alone
RuleAlone(p) ==
  LET alone == ServerSideStyles(<<p>>) IN
  IF alone = ReactNull THEN <<>> ELSE <<alone.dangerouslySetInnerHTML>>

RulesAlone(preds) ==
  LET rules[i \in 0..Len(preds)] ==
        IF i = 0 THEN <<>> ELSE rules[i - 1] \o RuleAlone(preds[i])
  IN  rules[Len(preds)]

\* C10: the CSS text is the rules of the rule-producing records, one per line,
\* in list order: the k-th line block is the rule the k-th rule-producing
\* record emits alone; nothing is sorted and nothing is dropped as a duplicate.
C10_RulesInListOrder ==
  style # NotRendered => style = Compiled(RulesAlone(predictions))

\* C10 witness: a hide and then a show for the same selector; both rules are
\* in the text, the show after the hide.
C10_Witness ==
  /\ style # NotRendered
  /\ Len(predictions) = 2
  /\ predictions[1].type = "visual"
  /\ predictions[2].type = "visual"
  /\ predictions[1].config # null
  /\ predictions[2].config # null
  /\ predictions[1].config.action = "hide"
  /\ predictions[2].config.action = "show"
  /\ predictions[1].config.selector = <<".", "t">>
  /\ predictions[2].config.selector = <<".", "t">>
  /\ style.tag = "style"
  /\ style.dangerouslySetInnerHTML = 
       <<".", "t", " ", "{", " ", "d", "i", "s", "p", "l", "a", "y", ":", " ", "n", "o", "n", "e", " ", "!", "i", "m", "p", "o", "r", "t", "a", "n", "t", ";", " ", "}", "\n", ".", "t", " ", "{", " ", "d", "i", "s", "p", "l", "a", "y", ":", " ", "b", "l", "o", "c", "k", " ", "!", "i", "m", "p", "o", "r", "t", "a", "n", "t", ";", " ", "}">>

\* the class string the region starts from: empty when no className is supplied
SuppliedClasses ==
  IF region.className = undefined THEN <<>> ELSE region.className

\* r is s without its leading and trailing whitespace
IsTrimmed(r, s) ==
  /\ r = <<>> \/ (r[1] # " " /\ r[Len(r)] # " ")
  /\ \E i \in 1..(Len(s) + 1), j \in 0..Len(s) :
       /\ r = SubSeq(s, i, j)
       /\ \A k \in 1..(i - 1) : s[k] = " "
       /\ \A k \in (j + 1)..Len(s) : s[k] = " "

\* C6: under an addClasses directive the class string is the supplied
\* className (empty when absent), one space, then the value, trimmed at both
\* ends; no token of the value is dropped as a duplicate; the content is the
\* default children.
C6_AddClassesAppends ==
  GovernedBy("addClasses") =>
    /\ IsTrimmed(region.element.className,
                 SuppliedClasses \o <<" ">> \o Governing.value)
    /\ region.element =
         [tag |-> "div", className |-> region.element.className,
          id |-> region.id, children |-> Children,
          dangerouslySetInnerHTML |-> undefined]

\* C6 witness: className "a" and value "b a" give "a b a": the token a, which
\* the className has already, is appended again.
C6_Witness ==
  /\ GovernedBy("addClasses")
  /\ region.className = <<"a">>
  /\ Governing.value = <<"b", " ", "a">>
  /\ region.element.className = <<"a", " ", "b", " ", "a">>

\* the tokens of a space-delimited string: its maximal runs without a space
Tokens(s) ==
  LET starts == {i \in 1..Len(s) : s[i] # " " /\ (i = 1 \/ s[i - 1] = " ")}
      end(i) == CHOOSE j \in i..Len(s) :
                  /\ \A k \in i..j : s[k] # " "
                  /\ j = Len(s) \/ s[j + 1] = " "
      nth(n) == CHOOSE i \in starts : Cardinality({j \in starts : j <= i}) = n
  IN  [n \in 1..Cardinality(starts) |-> SubSeq(s, nth(n), end(nth(n)))]

\* the tokens of className that are no token of value, in their order
Remaining(className, value) ==
  LET listed == {Tokens(value)[k] : k \in 1..Len(Tokens(value))}
      tokens == Tokens(className)
      kept == {i \in 1..Len(tokens) : tokens[i] \notin listed}
      nth(n) == CHOOSE i \in kept : Cardinality({j \in kept : j <= i}) = n
  IN  [n \in 1..Cardinality(kept) |-> tokens[nth(n)]]

\* C7: under a removeClasses directive the class list is the token sequence of
\* the supplied className without every occurrence of every token of the
\* value: no other token is removed, none is added, the order is kept; the
\* content is the default children.
C7_RemoveClassesFilters ==
  GovernedBy("removeClasses") =>
    /\ Tokens(region.element.className) =
         Remaining(SuppliedClasses, Governing.value)
    /\ region.element =
         [tag |-> "div", className |-> region.element.className,
          id |-> region.id, children |-> Children,
          dangerouslySetInnerHTML |-> undefined]

\* C7 witness: className "a a" and value "a": both occurrences are removed.
C7_Witness ==
  /\ GovernedBy("removeClasses")
  /\ region.className = <<"a", " ", "a">>
  /\ Governing.value = <<"a">>
  /\ region.element.className = <<>>


\* the number of rules the list of the pass emits, by the action-to-rule table
RuleCount == Len(TableRules(predictions))

C12_MalformedLikeEmpty ==
  given # "array" =>
    /\ style # NotRendered => style = ServerSideStyles(<<>>)
    /\ styleSdk # NotRendered => styleSdk = ServerSideStyles(<<>>)
    /\ region # NotRendered => region.element = DefaultRendering


\* the race was won by a complete response with status 200 whose body is a
\* JSON object with an array as predictions field
Succeeded ==
  /\ race.state = "resolved"
  /\ race.value.status = 200
  /\ race.value.body.json = "object"
  /\ race.value.body.predictions.kind = "array"

\* C13: the promise of getServerPredictions is never rejected, and its value
\* is an array: the array of the response when the request succeeded, and the
\* empty array after every failure (a body that is no JSON, a JSON body
\* without a predictions array, a status other than 200, a request error, a
\* timeout).
C13_AlwaysResolvesToArray ==
  result # Pending =>
    /\ result.state = "resolved"
    /\ result.value.kind = "array"
    /\ IF Succeeded
       THEN result.value = race.value.body.predictions
       ELSE result.value.items = <<>>


\* C14: the promise of getServerContext is never rejected, whatever the
\* headers of the request (a referer that is missing, empty or no URL) and
\* however the fetch settles; it resolves to a context whose predictions are
\* an array, the empty array when the fetch failed.
C14_ContextAlwaysResolves ==
  context # Pending =>
    /\ context.state = "resolved"
    /\ context.value.predictions.kind = "array"
    /\ fetched.state = "rejected" => context.value.predictions.items = <<>>


\* the names of the allowlist
Allowlist ==
  {"accept", "accept-language", "x-forwarded-for", "x-forwarded-host",
   "x-forwarded-proto"}

\* the request has a header of this name, in any letter case: its value
Sent(name) ==
  {incoming[n] : n \in {k \in DOMAIN incoming : ToLowerCase(k) = name}}

\* C16: the headers passed to the prediction fetch are exactly the
\* allowlisted headers of the request: every name passed is on the
\* allowlist, every allowlisted header of the request is passed with the
\* value it has in the request, and no other header of the request is passed.
C16_HeaderAllowlist ==
  meta # NotCalled =>
    /\ DOMAIN meta.headers \subseteq Allowlist
    /\ \A name \in Allowlist :
         Sent(name) # {} =>
           (name \in DOMAIN meta.headers /\ Sent(name) = {meta.headers[name]})
    /\ \A name \in DOMAIN meta.headers : Sent(name) = {meta.headers[name]}
    /\ \A n \in DOMAIN incoming :
         ToLowerCase(n) \notin Allowlist =>
           ToLowerCase(n) \notin DOMAIN meta.headers

\* C16 witness: a request with Accept, X-Forwarded-Host, Cookie,
\* authorization and a referer; the fetch is called with the first two only.
C16_Witness ==
  /\ meta # NotCalled
  /\ DOMAIN incoming =
       {"Accept", "X-Forwarded-Host", "Cookie", "authorization", "Referer"}
  /\ incoming["Accept"] = "w"
  /\ DOMAIN meta.headers = {"accept", "x-forwarded-host"}
  /\ meta.headers["accept"] = "w"


\* the SSR timer fired while the request had no complete response
SsrTimeoutFirst ==
  /\ ssrTimer = "fired"
  /\ race = Rejected("SSR timeout")

\* C15: every call of getServerPredictions, whatever the order of the
\* response, a request error, the request timeout and the SSR timeout, and
\* also when the server never answers, eventually resolves; and when the SSR
\* timer fires before a response is complete, it resolves to [].
C15_TimeoutBounded ==
  /\ <>(result.state = "resolved")
  /\ [](SsrTimeoutFirst => result = Resolved(Arr(<<>>)))
  /\ [][(race = Pending /\ requestPromise.state # "resolved" /\
         ssrTimer = "set" /\ ssrTimer' = "fired")
        => result' = Resolved(Arr(<<>>))]_vars

\* C15 witness: the server never answered and no request event happened; the
\* SSR timer fired and the call has returned [].
C15_Witness ==
  /\ referrer = "url"
  /\ requestPromise = Pending
  /\ reqTimer = "set"
  /\ ssrTimer = "fired"
  /\ pc = "returned"
  /\ result = Resolved(Arr(<<>>))


\* what a page shows for a list: the style element and one region
Combined(preds, selector, className, id) ==
  <<ServerSideStyles(preds),
    DynamicContent(preds, selector, Children, className, id)>>

\* some well-formed directive with this action changes what the page shows
Applied(action) ==
  \E p \in WellFormedDirectives, className \in ClassNames, id \in Ids :
    /\ p.config.action = action
    /\ Combined(<<p>>, p.config.selector, className, id) #
         Combined(<<>>, p.config.selector, className, id)

\* the HTML attributes of a rendered region: class and id
HtmlAttribute(element, name) ==
  CASE name = <<"i", "d">> -> element.id
    [] name = <<"c", "l", "a", "s", "s">> -> element.className
    [] OTHER -> undefined

\* C17: every action of the README's list of supported visual changes is
\* applied by the server-side rendering: some well-formed directive with the
\* action changes the style element or the region; and a region governed by a
\* setAttribute directive carries the directive's attribute with the
\* directive's value.
C17_ReadmeActionsApplied ==
  /\ \A action \in ReadmeActions : Applied(action)
  /\ GovernedBy("setAttribute") =>
       HtmlAttribute(region.element, Governing.config.attribute) =
         Governing.value


\* C18: ServerSideStyles keeps nothing between invocations: two invocations
\* on the same list, with any invocations on other lists before or between
\* them, return the same output, and the output of an invocation has the
\* rules of its own list and no rule of another invocation.
C18_NoStateBetweenInvocations ==
  /\ \A i, j \in DOMAIN calls :
       calls[i].list = calls[j].list => calls[i].output = calls[j].output
  /\ \A i \in DOMAIN calls :
       calls[i].output = Compiled(TableRules(calls[i].list))

\* C18 witness: the list of one hide is compiled, then a list of one
\* addGlobalCSS, then the first list again, with the output of the first
\* invocation.
C18_Witness ==
  /\ Len(calls) = 3
  /\ Len(calls[1].list) = 1
  /\ calls[1].list[1].config.action = "hide"
  /\ Len(calls[2].list) = 1
  /\ calls[2].list[1].config.action = "addGlobalCSS"
  /\ calls[3].list = calls[1].list
  /\ calls[3].output = calls[1].output
  /\ calls[3].output.tag = "style"


\* C19: a style element that ServerSideStyles returns has a CSS text that is
\* not empty, also when the only rule of the list is the empty value of an
\* addGlobalCSS.
C19_StyleTextNotEmpty ==
  (style # NotRendered /\ style # ReactNull) =>
    style.dangerouslySetInnerHTML # <<>>

\* the class string of the region after a removeClasses with the value of
\* the addClasses directive that governs it
AddedThenRemoved ==
  removeClasses(region.element.className, Governing.value)

\* C20 as stated: adding the tokens of a value to any base class string and
\* then removing the same tokens gives back the base class string, up to
\* whitespace.
C20_RoundTripAnyBase ==
  GovernedBy("addClasses") =>
    Tokens(AddedThenRemoved) = Tokens(SuppliedClasses)

\* no token of the value is a token of the base class string
BaseHasNoAddedToken ==
  \A i \in 1..Len(Tokens(SuppliedClasses)) :
    \A j \in 1..Len(Tokens(Governing.value)) :
      Tokens(SuppliedClasses)[i] # Tokens(Governing.value)[j]

\* C20, amended: when the base class string has none of the tokens that are
\* added, adding them and then removing the same tokens gives back the base
\* class string, up to whitespace.
C20_RoundTripDisjointBase ==
  (GovernedBy("addClasses") /\ BaseHasNoAddedToken) =>
    Tokens(AddedThenRemoved) = Tokens(SuppliedClasses)

\* C20 witness: "b" is added to the base " a", which gives "a b"; removing
\* "b" gives "a", the base without its leading space.
C20_Witness ==
  /\ GovernedBy("addClasses")
  /\ BaseHasNoAddedToken
  /\ region.className = <<" ", "a">>
  /\ Governing.value = <<"b">>
  /\ region.element.className = <<"a", " ", "b">>
  /\ AddedThenRemoved = <<"a">>


\* C21: the first of the raced events decides the result of
\* getServerPredictions and nothing changes it afterwards: when the SSR
\* timeout won, a later response, request error or request timeout leaves the
\* result [] ; when a response with status 200 won, a later SSR timeout
\* leaves the predictions of the response; and no rejection is left
\* unhandled.
C21_FirstSettlesForGood ==
  /\ [][result # Pending => result' = result]_vars
  /\ [][race # Pending => race' = race]_vars
  /\ [](race = Rejected("SSR timeout") => result = Resolved(Arr(<<>>)))
  /\ []((race.state = "resolved" /\ ssrTimer = "fired" /\ Succeeded) =>
          result = Resolved(race.value.body.predictions))
  /\ [](unhandled = {})

\* C21 witness: the SSR timeout won, and the response, with status 200 and a
\* prediction, was complete afterwards; the result is [].
C21_Witness ==
  /\ race = Rejected("SSR timeout")
  /\ requestPromise.state = "resolved"
  /\ requestPromise.value.status = 200
  /\ requestPromise.value.body.json = "object"
  /\ requestPromise.value.body.predictions.kind = "array"
  /\ requestPromise.value.body.predictions.items # <<>>
  /\ result = Resolved(Arr(<<>>))
  /\ unhandled = {}


\* the calls a step adds to the trace
Added == SubSeq(trace', Len(trace) + 1, Len(trace'))

\* the component is mounted by the step, or one of projectId, predictions
\* (the array passed, not its elements) and userId differs from the render
\* before
PropsChanged ==
  \/ props = NotMounted
  \/ props.projectId # props'.projectId
  \/ props.predictions # props'.predictions
  \/ props.userId # props'.userId

\* the names of the SDK calls of a run, in their order
SdkOrder ==
  <<"initEzbotWithServerSidePredictions", "startActivityTracking",
    "trackPageView">>

\* the SDK calls among the added calls
SdkCalls == SelectSeq(Added, LAMBDA c : \E i \in 1..3 : c.call = SdkOrder[i])

\* C22: in every render ClientOnlyEzbot hands its predictions to
\* ServerSideStyles, and on mount and on every change of projectId,
\* predictions or userId, for every list (also the empty one), it calls
\* initEzbotWithServerSidePredictions with the projectId, that same list and
\* the userId, then startActivityTracking, then trackPageView; a call that
\* throws is the last of its run, the error is caught, and the component
\* never fails.
C22_InitWithGivenPredictions ==
  [][trace' # trace =>
       /\ Added[1].call = "ServerSideStyles"
       /\ Added[1].args = <<props'.predictions>>
       /\ effect'.crashed = FALSE
       /\ (PropsChanged /\ props'.predictions.kind = "array") =>
            /\ Len(SdkCalls) \in 1..3
            /\ \A i \in 1..Len(SdkCalls) : SdkCalls[i].call = SdkOrder[i]
            /\ SdkCalls[1].args =
                 <<props'.projectId, Added[1].args[1], props'.userId>>
            /\ \A i \in 1..(Len(SdkCalls) - 1) : ~SdkCalls[i].threw
            /\ Len(SdkCalls) < 3 => SdkCalls[Len(SdkCalls)].threw
            /\ SubSeq(Added, 2, Len(SdkCalls) + 1) = SdkCalls
            /\ SdkCalls[Len(SdkCalls)].threw <=>
                 (/\ Len(Added) = Len(SdkCalls) + 2
                  /\ Added[Len(Added)].call = "console.error")]_vars

\* C22 witness: mounted with the empty list, the component is rendered again
\* with another array of the same project and user, and startActivityTracking
\* throws in the second run: the trace ends with the render, the init with the
\* new array, the call that threw and the catch block.
C22_Witness ==
  /\ effect.renders = 2
  /\ props.predictions = [kind |-> "array", ref |-> 2]
  /\ Len(trace) = 8
  /\ trace[1].call = "ServerSideStyles"
  /\ trace[1].args = <<[kind |-> "array", ref |-> 1]>>
  /\ trace[2].call = "initEzbotWithServerSidePredictions"
  /\ trace[2].args[2] = [kind |-> "array", ref |-> 1]
  /\ trace[4].call = "trackPageView"
  /\ trace[5].call = "ServerSideStyles"
  /\ trace[6].call = "initEzbotWithServerSidePredictions"
  /\ trace[6].args = <<props.projectId, props.predictions, props.userId>>
  /\ trace[6].args[1] = trace[2].args[1]
  /\ trace[6].args[3] = trace[2].args[3]
  /\ trace[7].call = "startActivityTracking"
  /\ trace[7].threw
  /\ trace[8].call = "console.error"


\* destroy() has been called on both agents
BothDestroyed ==
  \A p \in Protocols : agents[p].destroys > 0

\* C23: after a SIGTERM, a SIGINT or a 'beforeExit' both agents are
\* eventually destroyed, and once the event loop has no other work the
\* process eventually exits: the teardown hooks do not keep it alive.
C23_TeardownLetsProcessExit ==
  /\ [](immediates # <<>> => <>(immediates = <<>> /\ BothDestroyed))
  /\ [](otherWork = 0 => <>exited)

=============================================================================
